---------------------------- MODULE Spec2Model ----------------------------
(***************************************************************************)
(* Model of the DESCRIBE TABLE ... LINES scanner of src/app/main.py.       *)
(*                                                                         *)
(* A Python str is a sequence of one-character strings.  Offsets are       *)
(* 0-based as in Python: the character at offset k of text is text[k+1].   *)
(* Optional[T] is a sequence of length at most one: None is <<>> and a     *)
(* present value v is <<v>>.  A dict or a pydantic model is a record.      *)
(***************************************************************************)
EXTENDS Integers, Sequences, FiniteSets

VARIABLES
    units,      \* the request body of /remediate-array: List[Unit]
    idx,        \* number of units the loop of scan_describe_table has passed
    scanned,    \* the values res took, one per loop iteration, in order
    results,    \* the local list results of scan_describe_table
    pc,         \* "loop" while the handler iterates, "done" once it returned
    call        \* the last direct call of a function of the module

vars == <<units, idx, scanned, results, pc, call>>

\* ------------------------------------------------------------------------
\* Characters
\* ------------------------------------------------------------------------


UPPER ==
    <<"A", "B", "C", "D", "E", "F", "G", "H", "I", "J", "K", "L", "M", "N", "O", "P", "Q", "R",
      "S", "T", "U", "V", "W", "X", "Y", "Z">>

LOWER ==
    <<"a", "b", "c", "d", "e", "f", "g", "h", "i", "j", "k", "l", "m", "n", "o", "p", "q", "r",
      "s", "t", "u", "v", "w", "x", "y", "z">>

DIGITS ==
    <<"0", "1", "2", "3", "4", "5", "6", "7", "8", "9">>

LF == "\n"

CR == "\r"

BACKSLASH == "\\"

UpperSet == {UPPER[i] : i \in DOMAIN UPPER}

LowerSet == {LOWER[i] : i \in DOMAIN LOWER}

LowerOf == [c \in UpperSet |-> LOWER[CHOOSE i \in DOMAIN UPPER : UPPER[i] = c]]

\* re.IGNORECASE compares characters after case folding.
Fold(c) == IF c \in UpperSet THEN LowerOf[c] ELSE c

\* \s of a str pattern, within the characters the model writes.
SpaceChars == {" ", "\t", LF, CR, "\f"}

\* \w of a str pattern: letters, digits and the underscore.
WordChars == UpperSet \cup LowerSet \cup {DIGITS[i] : i \in DOMAIN DIGITS} \cup {"_"}

InClass(cls, c) == IF cls = "s" THEN c \in SpaceChars ELSE c \in WordChars

\* ------------------------------------------------------------------------
\* Python helpers
\* ------------------------------------------------------------------------

None == <<>>

Some(v) == <<v>>

Min(a, b) == IF a < b THEN a ELSE b

Max(a, b) == IF a > b THEN a ELSE b

\* A negative bound clamped to 0 instead of counted from the end.
SliceBound_Clamped(i, n) == IF i < 0 THEN 0 ELSE Min(i, n)

\* How a slice bound is normalised: a negative bound counts from the end,
\* and every bound is clamped to [0, n].
SliceBound(i, n) == IF i < 0 THEN Max(i + n, 0) ELSE Min(i, n)

\* text[s:e]
PySlice(text, s, e) ==
    LET a == SliceBound(s, Len(text))
        b == SliceBound(e, Len(text))
    IN  IF a >= b THEN <<>> ELSE SubSeq(text, a + 1, b)

\* str.count of a one-character string over a whole text
CountChar(text, c) == Cardinality({i \in DOMAIN text : text[i] = c})

RECURSIVE ReplaceIn(_, _, _, _, _)
\* The characters lo..hi of text, each c replaced by the string new.
ReplaceIn(text, lo, hi, c, new) ==
    IF lo > hi THEN <<>>
    ELSE IF lo = hi THEN (IF text[lo] = c THEN new ELSE <<text[lo]>>)
    ELSE LET mid == (lo + hi) \div 2
         IN  ReplaceIn(text, lo, mid, c, new) \o ReplaceIn(text, mid + 1, hi, c, new)

\* str.replace of a one-character string by the string new
ReplaceChar(text, c, new) == ReplaceIn(text, 1, Len(text), c, new)

RECURSIVE LStrip(_)
LStrip(text) ==
    IF text # <<>> /\ Head(text) \in SpaceChars THEN LStrip(Tail(text)) ELSE text

RECURSIVE RStrip(_)
RStrip(text) ==
    IF text # <<>> /\ text[Len(text)] \in SpaceChars
    THEN RStrip(SubSeq(text, 1, Len(text) - 1))
    ELSE text

\* str.strip()
Strip(text) == RStrip(LStrip(text))

\* unit.code or "": None and the empty string both give the empty string.
OrEmpty(opt) == IF opt = None THEN <<>> ELSE opt[1]

\* ------------------------------------------------------------------------
\* DESCRIBE_TABLE_RE and the matching of re, for this pattern
\* ------------------------------------------------------------------------


KW_DESCRIBE ==
    <<"D", "E", "S", "C", "R", "I", "B", "E">>

KW_TABLE ==
    <<"T", "A", "B", "L", "E">>

KW_LINES ==
    <<"L", "I", "N", "E", "S">>

MSG_A ==
    <<"O", "b", "s", "o", "l", "e", "t", "e", " ", "'", "D", "E", "S", "C", "R", "I", "B", "E",
      " ", "T", "A", "B", "L", "E", " ">>

MSG_B ==
    <<" ", "L", "I", "N", "E", "S", " ">>

MSG_C ==
    <<"'", " ", "f", "o", "u", "n", "d", ".", " ", "U", "s", "e", " ", "L", "I", "N", "E", "S",
      "(", " ">>

MSG_D ==
    <<" ", ")", " ", "i", "n", "s", "t", "e", "a", "d", " ", "f", "o", "r", " ", "S", "/", "4",
      "H", "A", "N", "A", " ", "c", "o", "m", "p", "a", "t", "i", "b", "i", "l", "i", "t", "y",
      ".">>

SUG_A ==
    <<"R", "e", "p", "l", "a", "c", "e", " ", "o", "b", "s", "o", "l", "e", "t", "e", " ", "'",
      "D", "E", "S", "C", "R", "I", "B", "E", " ", "T", "A", "B", "L", "E", " ">>

SUG_B ==
    <<" ", "L", "I", "N", "E", "S", " ">>

SUG_C ==
    <<"'", " ", "w", "i", "t", "h", " ", "m", "o", "d", "e", "r", "n", " ", "e", "x", "p", "r",
      "e", "s", "s", "i", "o", "n", " ", "'", "D", "A", "T", "A", "(">>

SUG_D ==
    <<")", " ", "=", " ", "L", "I", "N", "E", "S", "(", " ">>

SUG_E ==
    <<" ", ")", ".", "'", " ", "T", "h", "i", "s", " ", "u", "s", "e", "s", " ", "t", "h", "e",
      " ", "S", "/", "4", "H", "A", "N", "A", "-", "c", "o", "m", "p", "a", "t", "i", "b", "l",
      "e", " ", "L", "I", "N", "E", "S", "(", ")", " ", "f", "u", "n", "c", "t", "i", "o", "n",
      ".">>

REPL_A ==
    <<"D", "A", "T", "A", "(">>

REPL_B ==
    <<")", " ", "=", " ", "L", "I", "N", "E", "S", "(", " ">>

REPL_C ==
    <<" ", ")", ".">>

Lit(c) == [kind |-> "lit", ch |-> c, cls |-> "", grp |-> ""]

Plus(cls, grp) == [kind |-> "plus", ch |-> "", cls |-> cls, grp |-> grp]

Lits(word) == [i \in DOMAIN word |-> Lit(word[i])]

\* The compiled pattern (re.VERBOSE drops the layout and the comments):
\*   DESCRIBE \s+ TABLE \s+ (?P<table>\w+) \s+ LINES \s+ (?P<target>\w+)
DESCRIBE_TABLE_RE ==
    Lits(KW_DESCRIBE) \o <<Plus("s", "")>> \o
    Lits(KW_TABLE) \o <<Plus("s", "")>> \o <<Plus("w", "table")>> \o <<Plus("s", "")>> \o
    Lits(KW_LINES) \o <<Plus("s", "")>> \o <<Plus("w", "target")>>

NoSpan == <<-1, -1>>

NoMatch == [ok |-> FALSE, end |-> -1, table |-> NoSpan, target |-> NoSpan]

\* The pattern compiled without re.IGNORECASE.
LitMatches_CaseSensitive(pc_, c) == pc_ = c

\* re.IGNORECASE: a literal matches the character that folds to the same.
LitMatches(pc_, c) == Fold(pc_) = Fold(c)

RECURSIVE RunLen(_, _, _)
\* The length of the longest run of characters of class cls from offset pos.
RunLen(text, pos, cls) ==
    IF pos < Len(text) /\ InClass(cls, text[pos + 1])
    THEN 1 + RunLen(text, pos + 1, cls)
    ELSE 0

SetGroup(r, grp, s, e) ==
    IF grp = "table" THEN [r EXCEPT !.table = <<s, e>>]
    ELSE IF grp = "target" THEN [r EXCEPT !.target = <<s, e>>]
    ELSE r

RECURSIVE MatchHere(_, _, _, _)
RECURSIVE TryPlus(_, _, _, _, _)

\* A greedy + with backtracking: n repetitions first, then fewer, never none.
TryPlus(re, text, k, pos, n) ==
    IF n < 1 THEN NoMatch
    ELSE LET r == MatchHere(re, text, k + 1, pos + n)
         IN  IF r.ok THEN SetGroup(r, re[k].grp, pos, pos + n)
             ELSE TryPlus(re, text, k, pos, n - 1)

\* The match of the items k.. of the pattern at offset pos (Pattern.match).
MatchHere(re, text, k, pos) ==
    IF k > Len(re) THEN [NoMatch EXCEPT !.ok = TRUE, !.end = pos]
    ELSE IF re[k].kind = "lit"
    THEN IF pos < Len(text) /\ LitMatches(re[k].ch, text[pos + 1])
         THEN MatchHere(re, text, k + 1, pos + 1)
         ELSE NoMatch
    ELSE TryPlus(re, text, k, pos, RunLen(text, pos, re[k].cls))

\* A search that goes on one character after the start of a match.
ResumeAt_Overlapping(start, end) == start + 1

\* Where the search goes on after a match: at its end (one further after an
\* empty match, which this pattern never has).
ResumeAt(start, end) == IF end = start THEN end + 1 ELSE end

MkMatch(text, start, r) ==
    [start |-> start, end |-> r.end,
     group0 |-> PySlice(text, start, r.end),
     table |-> PySlice(text, r.table[1], r.table[2]),
     target |-> PySlice(text, r.target[1], r.target[2])]

\* Pattern.search from pos: the least offset at which the pattern matches,
\* or -1.
SearchFrom(re, text, pos) ==
    LET hits == {p \in pos..Len(text) : MatchHere(re, text, 1, p).ok}
    IN  IF hits = {} THEN -1 ELSE CHOOSE p \in hits : \A q \in hits : p <= q

RECURSIVE FindIter(_, _, _)
\* Pattern.finditer: the leftmost match from pos, then on from its end.
FindIter(re, text, pos) ==
    LET start == SearchFrom(re, text, pos)
    IN  IF start < 0 THEN <<>>
        ELSE LET r == MatchHere(re, text, 1, start)
             IN  <<MkMatch(text, start, r)>>
                 \o FindIter(re, text, ResumeAt(start, r.end))

finditer(text) == FindIter(DESCRIBE_TABLE_RE, text, 0)

\* ------------------------------------------------------------------------
\* Utility functions
\* ------------------------------------------------------------------------

\* The context snippet_at keeps on each side of a match.
SnippetContext == 60

\* The count taken up to and with the character at off.
line_of_offset_Inclusive(text, off) == CountChar(PySlice(text, 0, off + 1), LF) + 1

\* text.count("\n", 0, off) + 1
line_of_offset(text, off) == CountChar(PySlice(text, 0, off), LF) + 1

\* The window taken from start - 60 without the clamp to 0.
snippet_at_Unclamped(text, start, end) ==
    LET s == start - SnippetContext
        e == Min(Len(text), end + SnippetContext)
    IN  ReplaceChar(PySlice(text, s, e), LF, <<BACKSLASH, "n">>)

snippet_at(text, start, end) ==
    LET s == Max(0, start - SnippetContext)
        e == Min(Len(text), end + SnippetContext)
    IN  ReplaceChar(PySlice(text, s, e), LF, <<BACKSLASH, "n">>)

make_generic_suggestion(table, target) ==
    SUG_A \o table \o SUG_B \o target \o SUG_C \o target \o SUG_D \o table \o SUG_E

\* ------------------------------------------------------------------------
\* Core scan logic
\* ------------------------------------------------------------------------

ISSUE_TYPE == "ObsoleteDescribeTableUsage"

SEVERITY == "warning"

\* The note of the source, its ellipsis character written as three dots.
NOTE == "Replaces DESCRIBE TABLE ... LINES with functional expression."

message_of(table, target) ==
    MSG_A \o table \o MSG_B \o target \o MSG_C \o table \o MSG_D

\* The two captures exchanged in the replacement statement.
replacement_syntax_Swapped(table, target) ==
    REPL_A \o table \o REPL_B \o target \o REPL_C

replacement_syntax(table, target) ==
    REPL_A \o target \o REPL_B \o table \o REPL_C

\* The dict built for one match m in the unit's source src.
finding_of(unit, src, m) ==
    [pgm_name |-> unit.pgm_name,
     inc_name |-> unit.inc_name,
     type |-> unit.type,
     name |-> unit.name,
     start_line |-> unit.start_line,
     end_line |-> unit.end_line,
     issue_type |-> ISSUE_TYPE,
     severity |-> SEVERITY,
     line |-> line_of_offset(src, m.start),
     message |-> message_of(m.table, m.target),
     suggestion |-> make_generic_suggestion(m.table, m.target),
     snippet |-> snippet_at(src, m.start, m.end),
     meta |-> [original_statement |-> Strip(m.group0),
               replacement_syntax |-> replacement_syntax(m.table, m.target),
               note |-> NOTE]]

\* A dump that leaves out the fields that are None and gives them their
\* defaults (name "", start_line 0, end_line 0).
model_dump_Defaults(unit) ==
    [pgm_name |-> unit.pgm_name,
     inc_name |-> unit.inc_name,
     type |-> unit.type,
     name |-> IF unit.name = None THEN Some("") ELSE unit.name,
     start_line |-> IF unit.start_line = None THEN Some(0) ELSE unit.start_line,
     end_line |-> IF unit.end_line = None THEN Some(0) ELSE unit.end_line,
     code |-> unit.code,
     describe_findings |-> unit.describe_findings]

\* Unit.model_dump(): a new dict holding every field of the unit.
model_dump(unit) ==
    [pgm_name |-> unit.pgm_name,
     inc_name |-> unit.inc_name,
     type |-> unit.type,
     name |-> unit.name,
     start_line |-> unit.start_line,
     end_line |-> unit.end_line,
     code |-> unit.code,
     describe_findings |-> unit.describe_findings]

\* A findings list shared by the calls: each call adds to the list the call
\* before it left.
findings_of_Shared(unit) ==
    LET src == OrEmpty(unit.code)
        ms == finditer(src)
        left == IF scanned = <<>> THEN <<>> ELSE scanned[Len(scanned)].describe_findings
    IN  left \o [k \in DOMAIN ms |-> finding_of(unit, src, ms[k])]

\* The findings list scan_unit builds, one entry per match, in match order.
findings_of(unit) ==
    LET src == OrEmpty(unit.code)
        ms == finditer(src)
    IN  [k \in DOMAIN ms |-> finding_of(unit, src, ms[k])]

scan_unit(unit) ==
    [model_dump(unit) EXCEPT !.describe_findings = findings_of(unit)]

\* The result put in front of the list instead of at its end.
keep_result_Prepend(acc, res) ==
    IF res.describe_findings # <<>> THEN <<res>> \o acc ELSE acc

\* Every result kept, with or without findings.
keep_result_Always(acc, res) == Append(acc, res)

\* if res["describe_findings"]: results.append(res)
keep_result(acc, res) ==
    IF res.describe_findings # <<>> THEN Append(acc, res) ELSE acc

\* ------------------------------------------------------------------------
\* Inputs
\* ------------------------------------------------------------------------

\* Largest number of units in a request body.
MaxUnits == 3

\* Largest number of segments joined into the code of a scanned unit.
MaxSegs == 2

\* How far outside [0, len(text)] the offsets given to line_of_offset go.
MaxOver == 2

\* Largest length of a span given to snippet_at directly.
MaxSpan == 1


T_ScenarioA ==
    <<"D", "E", "S", "C", "R", "I", "B", "E", " ", "T", "A", "B", "L", "E", " ", "L", "T", "_",
      "T", "A", "B", " ", "L", "I", "N", "E", "S", " ", "L", "V", "_", "L", "I", "N", "E", "S",
      ".">>

T_Upper ==
    <<"D", "E", "S", "C", "R", "I", "B", "E", " ", "T", "A", "B", "L", "E", " ", "F", "O", "O",
      " ", "L", "I", "N", "E", "S", " ", "B", "A", "R">>

T_Lower ==
    <<"d", "e", "s", "c", "r", "i", "b", "e", " ", "t", "a", "b", "l", "e", " ", "F", "O", "O",
      " ", "l", "i", "n", "e", "s", " ", "B", "A", "R">>

T_Mixed ==
    <<"D", "e", "s", "c", "r", "i", "b", "e", " ", "t", "A", "b", "L", "e", " ", "F", "O", "O",
      " ", "L", "i", "N", "e", "S", " ", "B", "A", "R">>

T_ScenarioD ==
    <<"D", "E", "S", "C", "R", "I", "B", "E", " ", "T", "A", "B", "L", "E", "\n", " ", " ",
      "L", "T", "_", "T", "A", "B", "\n", "L", "I", "N", "E", "S", " ", "L", "V", "_", "N",
      ".">>

T_CrLf ==
    <<"\r", "\n", "d", "e", "s", "c", "r", "i", "b", "e", " ", "t", "a", "b", "l", "e", "\r",
      "\n", "\t", "l", "t", "_", "1", " ", "l", "i", "n", "e", "s", " ", "l", "v", "_", "2",
      ".", "\r", "\n">>

T_Hello ==
    <<"W", "R", "I", "T", "E", " ", "'", "h", "e", "l", "l", "o", "'", ".">>

T_Chain ==
    <<"D", "E", "S", "C", "R", "I", "B", "E", " ", "T", "A", "B", "L", "E", " ", "A", " ", "L",
      "I", "N", "E", "S", " ", "D", "E", "S", "C", "R", "I", "B", "E", " ", "T", "A", "B", "L",
      "E", " ", "B", " ", "L", "I", "N", "E", "S", " ", "D", "E", "S", "C", "R", "I", "B", "E">>

T_ChainTail ==
    <<" ", "T", "A", "B", "L", "E", " ", "C", " ", "L", "I", "N", "E", "S", " ", "D", ".",
      "\n">>

T_NoLines ==
    <<"D", "E", "S", "C", "R", "I", "B", "E", " ", "T", "A", "B", "L", "E", " ", "X", ".",
      "\n">>

\* A comment line longer than the context of a snippet, ended by CR LF.
T_PadLine == <<"*">> \o [i \in 1..SnippetContext |-> "-"] \o <<CR, LF>>

Segments ==
    {T_ScenarioA, T_Lower, T_ScenarioD, T_CrLf, T_Hello, T_Chain, T_ChainTail,
     T_NoLines, T_PadLine}

RECURSIVE Texts(_)
\* Every text made of at most n segments.
Texts(n) ==
    IF n = 0 THEN {<<>>}
    ELSE LET shorter == Texts(n - 1)
         IN  shorter \cup {t \o s : t \in shorter, s \in Segments}

ID1 ==
    [pgm_name |-> "ZPGM1", inc_name |-> "ZINC1", type |-> "FORM",
     name |-> Some("F1"), start_line |-> Some(10), end_line |-> Some(20)]

ID2 ==
    [pgm_name |-> "ZPGM2", inc_name |-> "", type |-> "REPORT",
     name |-> None, start_line |-> Some(0), end_line |-> None]

MkUnit(id, code, found) ==
    [pgm_name |-> id.pgm_name, inc_name |-> id.inc_name, type |-> id.type,
     name |-> id.name, start_line |-> id.start_line, end_line |-> id.end_line,
     code |-> code, describe_findings |-> found]

\* A Finding sent in with a unit: every field is Optional.
StaleFinding ==
    [pgm_name |-> None, inc_name |-> None, type |-> None, name |-> None,
     start_line |-> None, end_line |-> None, issue_type |-> Some("Stale"),
     severity |-> None, line |-> Some(7), message |-> None, suggestion |-> None,
     snippet |-> None, meta |-> None]

\* The units a request body is made of.
BatchUnits ==
    {MkUnit(ID1, Some(T_ScenarioA), None),
     MkUnit(ID1, Some(T_Hello), None),
     MkUnit(ID2, None, None),
     MkUnit(ID1, Some(<<>>), Some(<<StaleFinding>>)),
     MkUnit(ID2, Some(T_ScenarioD \o T_CrLf), Some(<<StaleFinding>>)),
     MkUnit(ID1, Some(T_Upper), None),
     MkUnit(ID1, Some(T_Lower), None),
     MkUnit(ID1, Some(T_Mixed), None)}

RECURSIVE Batches(_)
\* Every request body of at most n units.
Batches(n) ==
    IF n = 0 THEN {<<>>}
    ELSE LET shorter == Batches(n - 1)
         IN  shorter \cup {Append(b, u) : b \in shorter, u \in BatchUnits}

\* ------------------------------------------------------------------------
\* The handler of /remediate-array, one loop iteration per step
\* ------------------------------------------------------------------------

\* No function of the module has a raise statement, and str.count, slicing and
\* str.replace raise nothing for a str and int arguments: raised is None.
NoCall == [fn |-> "none", args |-> <<>>, ret |-> <<>>, raised |-> None]

Init ==
    /\ units \in Batches(MaxUnits)
    /\ idx = 0
    /\ scanned = <<>>
    /\ results = <<>>
    /\ pc = "loop"
    /\ call = NoCall

\* for u in units: res = scan_unit(u); if res["describe_findings"]: ...
ScanNext ==
    /\ pc = "loop"
    /\ idx < Len(units)
    /\ LET res == scan_unit(units[idx + 1])
       IN  /\ scanned' = Append(scanned, res)
           /\ results' = keep_result(results, res)
    /\ idx' = idx + 1
    /\ UNCHANGED <<units, pc, call>>

\* return results
Return ==
    /\ pc = "loop"
    /\ idx = Len(units)
    /\ pc' = "done"
    /\ UNCHANGED <<units, idx, scanned, results, call>>

Next == ScanNext \/ Return

Spec == Init /\ [][Next]_vars

\* ------------------------------------------------------------------------
\* Direct calls of the functions on the code of one unit
\* ------------------------------------------------------------------------

InitScan ==
    /\ units \in {<<MkUnit(ID1, Some(t), None)>> : t \in Texts(MaxSegs)}
    /\ idx = 0
    /\ scanned = <<>>
    /\ results = <<>>
    /\ pc = "loop"
    /\ call = NoCall

Src == OrEmpty(units[1].code)

CallLineOfOffset ==
    /\ call = NoCall
    /\ \E off \in (0 - MaxOver)..(Len(Src) + MaxOver) :
          call' = [fn |-> "line_of_offset", args |-> <<Src, off>>,
                   ret |-> line_of_offset(Src, off), raised |-> None]
    /\ UNCHANGED <<units, idx, scanned, results, pc>>

CallSnippetAt ==
    /\ call = NoCall
    /\ \E start \in 0..Len(Src) :
          \E end \in start..Min(Len(Src), start + MaxSpan) :
             call' = [fn |-> "snippet_at", args |-> <<Src, start, end>>,
                      ret |-> snippet_at(Src, start, end), raised |-> None]
    /\ UNCHANGED <<units, idx, scanned, results, pc>>

CallScanUnit ==
    /\ call = NoCall
    /\ call' = [fn |-> "scan_unit", args |-> <<units[1]>>, ret |-> scan_unit(units[1]),
                raised |-> None]
    /\ UNCHANGED <<units, idx, scanned, results, pc>>

NextScan == CallLineOfOffset \/ CallSnippetAt \/ CallScanUnit

SpecScan == InitScan /\ [][NextScan]_vars


\* ------------------------------------------------------------------------
\* The construct DESCRIBE TABLE <table> LINES <target>, stated from its
\* grammar: keywords in any case, identifier tokens, white space between
\* the tokens.  The properties below compare the scanner with it.
\* ------------------------------------------------------------------------

RefDescribe == <<"d", "e", "s", "c", "r", "i", "b", "e">>

RefTable == <<"t", "a", "b", "l", "e">>

RefLines == <<"l", "i", "n", "e", "s">>

\* c is the lower-case letter low, written in either case.
RefIsLetter(c, low) ==
    c = low \/ \E i \in DOMAIN LOWER : LOWER[i] = low /\ UPPER[i] = c

\* The keyword kw stands at offset p of text.
RefKwAt(text, p, kw) ==
    /\ p >= 0
    /\ p + Len(kw) <= Len(text)
    /\ \A i \in DOMAIN kw : RefIsLetter(text[p + i], kw[i])

\* The characters of text from offset a up to offset b are all of set, and
\* there is at least one.
RefRun(text, a, b, set) ==
    /\ a < b
    /\ b <= Len(text)
    /\ \A i \in (a + 1)..b : text[i] \in set

\* Where the white space that starts at offset p ends, when something follows.
RefAfterSpaces(text, p) ==
    {q \in (p + 1)..(Len(text) - 1) :
        RefRun(text, p, q, SpaceChars) /\ text[q + 1] \notin SpaceChars}

\* Where the identifier token that starts at offset p ends.
RefTokenEnds(text, p) ==
    {q \in (p + 1)..Len(text) :
        RefRun(text, p, q, WordChars) /\ (q = Len(text) \/ text[q + 1] \notin WordChars)}

\* The occurrences of the construct that start at offset s.
RefOccurrencesAt(text, s) ==
    IF ~RefKwAt(text, s, RefDescribe) THEN {}
    ELSE UNION {UNION {UNION {UNION {UNION {
        {[start |-> s, end |-> g, table_kw |-> a, lines_kw |-> d,
          table |-> <<b, c>>, target |-> <<f, g>>] :
            g \in RefTokenEnds(text, f)} :
            f \in RefAfterSpaces(text, d + Len(RefLines))} :
            d \in {x \in RefAfterSpaces(text, c) : RefKwAt(text, x, RefLines)}} :
            c \in RefTokenEnds(text, b)} :
            b \in RefAfterSpaces(text, a + Len(RefTable))} :
            a \in {x \in RefAfterSpaces(text, s + Len(RefDescribe)) :
                      RefKwAt(text, x, RefTable)}}

\* Every occurrence of the construct in text.
RefOccurrences(text) == UNION {RefOccurrencesAt(text, s) : s \in 0..Len(text)}

RefOverlap(o, p) == o.start < p.end /\ p.start < o.end

RefDisjoint(S) == \A o \in S : \A p \in S : o = p \/ ~RefOverlap(o, p)

\* The largest number of occurrences no two of which overlap.
RefMaxDisjoint(occ) ==
    LET sizes == {Cardinality(S) : S \in {T \in SUBSET occ : RefDisjoint(T)}}
    IN  CHOOSE n \in sizes : \A m \in sizes : m <= n

\* The occurrences read from left to right, each one that overlaps an
\* occurrence already read being passed over.
RefSelected(occ) ==
    CHOOSE S \in SUBSET occ :
        \A o \in occ :
            o \in S <=> ~\E p \in S : p.start < o.start /\ o.start < p.end

\* The k-th occurrence of S in the order of the start offsets.
RefKth(S, k) ==
    CHOOSE o \in S : Cardinality({p \in S : p.start < o.start}) = k - 1

\* text[a:b] for 0 <= a <= b <= len(text).
RefSlice(text, a, b) == [i \in 1..(b - a) |-> text[a + i]]

\* One plus the number of line feeds before offset off.
RefLine(text, off) == 1 + Cardinality({i \in 1..off : i <= Len(text) /\ text[i] = LF})

\* The text a unit is scanned for.
RefText(unit) == IF unit.code = <<>> THEN <<>> ELSE unit.code[1]

\* The direct call of scan_unit, when the last call was one.
ScanCalled == call.fn = "scan_unit"

ScanText == RefText(call.args[1])

ScanFindings == call.ret.describe_findings

ScanSelected == RefSelected(RefOccurrences(ScanText))

\* ------------------------------------------------------------------------
\* Properties of the scan of one unit (SpecScan)
\* ------------------------------------------------------------------------

\* C2: scan_unit produces exactly one finding per non-overlapping occurrence of
\* the construct in the unit's text, N findings for N such occurrences, and
\* the findings stand in the order of strictly ascending match-start offsets.
C2_OneFindingPerOccurrence ==
    ScanCalled =>
        LET occ == RefOccurrences(ScanText)
            ms == finditer(ScanText)
        IN  /\ Len(ScanFindings) = RefMaxDisjoint(occ)
            /\ Len(ScanFindings) = Cardinality(ScanSelected)
            /\ Len(ms) = Len(ScanFindings)
            /\ \A k \in DOMAIN ms :
                  /\ ms[k].start = RefKth(ScanSelected, k).start
                  /\ ms[k].end = RefKth(ScanSelected, k).end
                  /\ k > 1 => ms[k - 1].start < ms[k].start
                  /\ ScanFindings[k].meta.original_statement
                        = RefSlice(ScanText, ms[k].start, ms[k].end)
                  /\ ScanFindings[k].line = RefLine(ScanText, ms[k].start)

\* C2 witness: a scanned text with three occurrences of which the second
\* overlaps the first, and two findings.
C2_Witness ==
    /\ ScanCalled
    /\ Len(ScanFindings) = 2
    /\ Cardinality(RefOccurrences(ScanText)) = 3
    /\ ~RefDisjoint(RefOccurrences(ScanText))

\* The direct call of line_of_offset, when the last call was one.
LineCalled == call.fn = "line_of_offset"

LineText == call.args[1]

LineOff == call.args[2]

\* C3: for an offset in [0, len(text)], line_of_offset is one plus the number
\* of line feeds strictly before the offset, so 1 at offset 0 and never less
\* than 1; the line of a finding is the line of the start of its match (the
\* DESCRIBE keyword), also when the statement goes on over several lines.
C3_LineOfMatchStart ==
    /\ (LineCalled /\ LineOff \in 0..Len(LineText)) =>
          /\ call.ret = RefLine(LineText, LineOff)
          /\ call.ret >= 1
          /\ LineOff = 0 => call.ret = 1
    /\ ScanCalled =>
          /\ Len(ScanFindings) = Cardinality(ScanSelected)
          /\ \A k \in DOMAIN ScanFindings :
                ScanFindings[k].line = RefLine(ScanText, RefKth(ScanSelected, k).start)

\* C3 witness: a finding for a statement that starts after the first line and
\* whose LINES keyword stands on a later line than its DESCRIBE keyword.
C3_Witness ==
    /\ ScanCalled
    /\ \E k \in DOMAIN ScanFindings :
          /\ ScanFindings[k].line > 1
          /\ ScanFindings[k].line < RefLine(ScanText, RefKth(ScanSelected, k).lines_kw)

RefScenarioARepl ==
    <<"D", "A", "T", "A", "(", "L", "V", "_", "L", "I", "N", "E", "S", ")", " ", "=", " ",
      "L", "I", "N", "E", "S", "(", " ", "L", "T", "_", "T", "A", "B", " ", ")", ".">>

\* "DATA(" + target + ") = LINES( " + table + " )."
RefReplacement(table, target) ==
    <<"D", "A", "T", "A", "(">> \o target
    \o <<")", " ", "=", " ", "L", "I", "N", "E", "S", "(", " ">> \o table
    \o <<" ", ")", ".">>

\* C4: the replacement_syntax of a finding is "DATA(" + target + ") = LINES( "
\* + table + " )." with the two captures of its match in these places; the
\* text of scenario A gives one finding, "DATA(LV_LINES) = LINES( LT_TAB ).".
C4_ReplacementSyntax ==
    ScanCalled =>
        /\ Len(ScanFindings) = Cardinality(ScanSelected)
        /\ \A k \in DOMAIN ScanFindings :
              LET o == RefKth(ScanSelected, k)
              IN  ScanFindings[k].meta.replacement_syntax
                     = RefReplacement(RefSlice(ScanText, o.table[1], o.table[2]),
                                      RefSlice(ScanText, o.target[1], o.target[2]))
        /\ ScanText = T_ScenarioA =>
              /\ Len(ScanFindings) = 1
              /\ ScanFindings[1].meta.replacement_syntax = RefScenarioARepl

\* C4 witness: the text of scenario A was scanned and gave one finding.
C4_Witness ==
    /\ ScanCalled
    /\ ScanText = T_ScenarioA
    /\ Len(ScanFindings) = 1
    /\ ScanFindings[1].meta.replacement_syntax = RefScenarioARepl

\* C9, as claimed: an offset outside [0, len(text)] given to line_of_offset
\* ends in an InvalidOffset error and gives no line number.
C9_InvalidOffsetRaised ==
    (LineCalled /\ LineOff \notin 0..Len(LineText)) =>
        call.raised = Some("InvalidOffset")

\* C9, amended: an offset outside [0, len(text)] raises nothing and gives an
\* ordinary line number, never less than 1: an offset past the end counts as
\* len(text), and a negative offset counts from the end of the text (as
\* len(text) + offset, or 0 when that is negative).
C9_OutOfRangeOffsetCounted ==
    (LineCalled /\ LineOff \notin 0..Len(LineText)) =>
        /\ call.raised = None
        /\ call.ret >= 1
        /\ LineOff > Len(LineText) => call.ret = RefLine(LineText, Len(LineText))
        /\ LineOff < 0 =>
              call.ret = RefLine(LineText, IF Len(LineText) + LineOff > 0
                                           THEN Len(LineText) + LineOff ELSE 0)

\* C9 witness: a negative offset that was counted from the end of a text of
\* several lines.
C9_Witness ==
    /\ LineCalled
    /\ LineOff < 0
    /\ Len(LineText) + LineOff > 0
    /\ call.raised = None
    /\ call.ret > 1

\* r is w with every character of brk written as a backslash and a letter
\* (n for a line feed, r for a carriage return) and nothing else changed.
RefEscapes(w, brk, r) ==
    LET B == {j \in DOMAIN w : w[j] \in brk}
        pos(i) == i + Cardinality({j \in B : j < i})
    IN  /\ Len(r) = Len(w) + Cardinality(B)
        /\ \A i \in DOMAIN w :
              IF i \in B
              THEN /\ r[pos(i)] = BACKSLASH
                   /\ r[pos(i) + 1] = (IF w[i] = LF THEN "n" ELSE "r")
              ELSE r[pos(i)] = w[i]

\* text[max(0, start - 60) : min(len(text), end + 60)]
RefWindow(text, start, end) ==
    RefSlice(text,
             IF start - 60 > 0 THEN start - 60 ELSE 0,
             IF end + 60 < Len(text) THEN end + 60 ELSE Len(text))

\* The snippet r of the span start..end of text is its window with the
\* characters of brk escaped, and holds none of them.
RefSnippetOK(text, start, end, brk, r) ==
    /\ RefEscapes(RefWindow(text, start, end), brk, r)
    /\ \A p \in DOMAIN r : r[p] \notin brk

SnippetCalled == call.fn = "snippet_at"

\* C10, as claimed: the snippet is the window of 60 characters around the span
\* with line feeds and carriage returns alike escaped, and holds neither.
C10_EveryLineBreakEscaped ==
    /\ SnippetCalled =>
          RefSnippetOK(call.args[1], call.args[2], call.args[3], {LF, CR}, call.ret)
    /\ ScanCalled =>
          /\ Len(ScanFindings) = Cardinality(ScanSelected)
          /\ \A k \in DOMAIN ScanFindings :
                LET o == RefKth(ScanSelected, k)
                IN  RefSnippetOK(ScanText, o.start, o.end, {LF, CR}, ScanFindings[k].snippet)

\* C10, amended: the snippet is the window of 60 characters around the span,
\* clamped to the text, with every line feed written as a backslash and an n;
\* it holds no line feed, and a carriage return stays as it is.
C10_LineFeedEscaped ==
    /\ SnippetCalled =>
          RefSnippetOK(call.args[1], call.args[2], call.args[3], {LF}, call.ret)
    /\ ScanCalled =>
          /\ Len(ScanFindings) = Cardinality(ScanSelected)
          /\ \A k \in DOMAIN ScanFindings :
                LET o == RefKth(ScanSelected, k)
                IN  RefSnippetOK(ScanText, o.start, o.end, {LF}, ScanFindings[k].snippet)

\* C10 witness: a snippet of a span with more than 60 characters on each side,
\* cut on both sides, with a line feed in it written as an escape and a
\* carriage return in it kept.
C10_Witness ==
    /\ SnippetCalled
    /\ call.args[2] > 60
    /\ call.args[3] + 60 < Len(call.args[1])
    /\ \E p \in DOMAIN call.ret : call.ret[p] = BACKSLASH
    /\ \E p \in DOMAIN call.ret : call.ret[p] = CR

\* ------------------------------------------------------------------------
\* Properties of the handler of a batch (Spec)
\* ------------------------------------------------------------------------

\* The units passed so far whose text holds an occurrence of the construct.
RefMatching == {i \in DOMAIN scanned : RefOccurrences(RefText(units[i])) # {}}

\* The k-th element of the set of numbers S.
RefKthIndex(S, k) == CHOOSE i \in S : Cardinality({j \in S : j < i}) = k - 1

\* C1: the output of scan_describe_table is the scan results of the units
\* with at least one occurrence of the construct, each once, in the order of
\* the input; a unit without an occurrence is not in it.
C1_OutputIsMatchingSubsequence ==
    LET matching == RefMatching
    IN  /\ Len(scanned) = idx
        /\ pc = "done" => idx = Len(units)
        /\ Len(results) = Cardinality(matching)
        /\ \A k \in DOMAIN results :
              LET i == RefKthIndex(matching, k)
              IN  /\ results[k] = scanned[i]
                  /\ results[k].describe_findings # <<>>
                  /\ results[k].code = units[i].code
                  /\ results[k].pgm_name = units[i].pgm_name
        /\ \A i \in DOMAIN scanned :
              i \notin matching => scanned[i].describe_findings = <<>>

\* C1 witness: scenario C, a returned batch of three units of which the first
\* and the third hold the construct and differ, and the second does not.
C1_Witness ==
    /\ pc = "done"
    /\ Len(units) = 3
    /\ RefMatching = {1, 3}
    /\ units[1] # units[3]
    /\ Len(results) = 2
    /\ results[1].code = units[1].code
    /\ results[2].code = units[3].code

\* The offsets of text that a keyword of an occurrence covers.
RefKeywordOffsets(text) ==
    UNION {(o.start..(o.start + Len(RefDescribe) - 1))
           \cup (o.table_kw..(o.table_kw + Len(RefTable) - 1))
           \cup (o.lines_kw..(o.lines_kw + Len(RefLines) - 1)) :
           o \in RefOccurrences(text)}

RefSameLetter(c, d) == \E i \in DOMAIN LOWER : {c, d} \subseteq {LOWER[i], UPPER[i]}

\* t1 and t2 are the same text but for the case of letters of keywords.
RefSameButKeywordCase(t1, t2) ==
    LET kw == RefKeywordOffsets(t1)
    IN  /\ Len(t1) = Len(t2)
        /\ \A i \in DOMAIN t1 :
              \/ t1[i] = t2[i]
              \/ (i - 1) \in kw /\ RefSameLetter(t1[i], t2[i])

RefFooBarRepl ==
    <<"D", "A", "T", "A", "(", "B", "A", "R", ")", " ", "=", " ",
      "L", "I", "N", "E", "S", "(", " ", "F", "O", "O", " ", ")", ".">>

\* C5: two texts that differ only in the case of the keywords give the same
\* number of matches with the same captures (seen in the message, the
\* suggestion and the replacement statement); DESCRIBE TABLE FOO LINES BAR in
\* upper, lower or mixed case of the keywords gives one match with table FOO
\* and target BAR; a capture is the identifier as the text writes it.
C5_KeywordCaseIgnored ==
    /\ \A i \in DOMAIN scanned : \A j \in DOMAIN scanned :
          RefSameButKeywordCase(RefText(units[i]), RefText(units[j])) =>
              LET fi == scanned[i].describe_findings
                  fj == scanned[j].describe_findings
              IN  /\ Len(fi) = Len(fj)
                  /\ \A k \in DOMAIN fi :
                        /\ fi[k].meta.replacement_syntax = fj[k].meta.replacement_syntax
                        /\ fi[k].message = fj[k].message
                        /\ fi[k].suggestion = fj[k].suggestion
    /\ \A i \in DOMAIN scanned :
          LET text == RefText(units[i])
              fs == scanned[i].describe_findings
              sel == RefSelected(RefOccurrences(text))
          IN  /\ text \in {T_Upper, T_Lower, T_Mixed} =>
                    Len(fs) = 1 /\ fs[1].meta.replacement_syntax = RefFooBarRepl
              /\ Len(fs) = Cardinality(sel)
              /\ \A k \in DOMAIN fs :
                    LET o == RefKth(sel, k)
                    IN  fs[k].meta.replacement_syntax
                           = RefReplacement(RefSlice(text, o.table[1], o.table[2]),
                                            RefSlice(text, o.target[1], o.target[2]))

\* C5 witness: the upper-case and the lower-case statement were both scanned
\* and each gave one finding, with the same replacement statement.
C5_Witness ==
    \E i \in DOMAIN scanned : \E j \in DOMAIN scanned :
        /\ RefText(units[i]) = T_Upper
        /\ RefText(units[j]) = T_Lower
        /\ Len(scanned[i].describe_findings) = 1
        /\ Len(scanned[j].describe_findings) = 1
        /\ scanned[i].describe_findings[1].meta.replacement_syntax
              = scanned[j].describe_findings[1].meta.replacement_syntax

RefIdentity == {"pgm_name", "inc_name", "type", "name", "start_line", "end_line"}

\* The scan result r of unit u holds every field of u as u has it, but for
\* describe_findings, which holds findings of this scan with the identity of u.
RefResultCarries(u, r) ==
    /\ DOMAIN r = DOMAIN u
    /\ \A f \in DOMAIN u \ {"describe_findings"} : r[f] = u[f]
    /\ \A k \in DOMAIN r.describe_findings :
          /\ \A f \in RefIdentity : r.describe_findings[k][f] = u[f]
          /\ r.describe_findings[k].issue_type = "ObsoleteDescribeTableUsage"

\* C7: no step changes a unit of the input; each scan result holds the fields
\* of its unit unchanged, with describe_findings set to the new findings,
\* each of which copies the six identity fields of the unit.
C7_InputUnitKept ==
    [][/\ units' = units
       /\ \A i \in DOMAIN scanned' : RefResultCarries(units[i], scanned'[i])]_vars

\* C7 witness: a unit sent in with a finding of an earlier run and with fields
\* that are None was scanned; its result holds new findings and the unit still
\* holds the old one.
C7_Witness ==
    \E i \in DOMAIN scanned :
        /\ units[i].describe_findings = Some(<<StaleFinding>>)
        /\ units[i].name = None
        /\ Len(scanned[i].describe_findings) = 2
        /\ scanned[i].describe_findings[1].name = None
        /\ scanned[i].code = units[i].code

\* The unit has no text: code is None or the empty string.
RefBlank(unit) == unit.code = None \/ unit.code = Some(<<>>)

\* The output for a batch, from the scans of its units one by one.
RefOutput(batch) ==
    SelectSeq([k \in DOMAIN batch |-> scan_unit(batch[k])],
              LAMBDA r : r.describe_findings # <<>>)

\* C8: a unit without text is scanned like any other, gives no findings and
\* is not in the output, and the output returned is what it is for the same
\* batch without the units without text.
C8_BlankUnitDropped ==
    /\ Len(scanned) = idx
    /\ \A i \in DOMAIN scanned :
          RefBlank(units[i]) => scanned[i].describe_findings = <<>>
    /\ \A k \in DOMAIN results : ~RefBlank(results[k])
    /\ pc = "done" =>
          results = RefOutput(SelectSeq(units, LAMBDA u : ~RefBlank(u)))

\* C8 witness: a returned batch with a unit whose code is None, a unit whose
\* code is empty and, after them, a unit that is in the output.
C8_Witness ==
    /\ pc = "done"
    /\ Len(units) = 3
    /\ units[1].code = None
    /\ units[2].code = Some(<<>>)
    /\ Len(results) = 1
    /\ results[1].code = units[3].code
=============================================================================
